---------------------------- MODULE Spec2Model ----------------------------
(***************************************************************************)
(* A model of rust-warc (src/src/lib.rs): the case-insensitive header key  *)
(* CaseString, the record parser WarcRecord::parse and the iterator        *)
(* WarcReader.                                                             *)
(*                                                                         *)
(* Texts and byte streams are sequences of bytes (0..255).  A Rust String  *)
(* is such a sequence that is valid UTF-8; the operations of str that the  *)
(* code uses (trim, trim_end, find, starts_with, make_ascii_lowercase,     *)
(* parse::<usize>) are computed on the UTF-8 bytes.                        *)
(***************************************************************************)
EXTENDS Integers, Sequences, FiniteSets, TLC

VARIABLES
    frags,        \* the pieces the input was assembled from (history only)
    data,         \* the bytes of the underlying source, fixed at construction
    pos,          \* WarcReader.read: number of bytes of data consumed so far
    valid_state,  \* WarcReader.valid_state
    results,      \* one entry per completed call of next(), oldest first
    crashed,      \* a call of next() panicked and never returned
    sa, sb,       \* CaseString: the two texts handed to the constructor
    cmp           \* CaseString: what the last comparison of sa and sb found

vars == <<frags, data, pos, valid_state, results, crashed, sa, sb, cmp>>

---------------------------------------------------------------------------
(* Bytes and texts *)

LF == 10
COLON == 58

CRLF == <<13, 10>>
CRLFCRLF == <<13, 10, 13, 10>>
WARC_PREFIX == <<87, 65, 82, 67, 47, 49, 46>>                   \* "WARC/1."
CONTENT_LENGTH == <<67, 111, 110, 116, 101, 110, 116, 45,
                    76, 101, 110, 103, 116, 104>>               \* "Content-Length"
\* usize::MAX and isize::MAX of a 64-bit target, as decimal digits
USIZE_MAX == <<1, 8, 4, 4, 6, 7, 4, 4, 0, 7, 3, 7, 0, 9, 5, 5, 1, 6, 1, 5>>
ISIZE_MAX == <<9, 2, 2, 3, 3, 7, 2, 0, 3, 6, 8, 5, 4, 7, 7, 5, 8, 0, 7>>

starts_with(s, p) == Len(s) >= Len(p) /\ SubSeq(s, 1, Len(p)) = p

\* The suffix of s from index i on (i may be Len(s) + 1).
Drop(s, i) == SubSeq(s, i, Len(s))

\* Length in bytes of the UTF-8 scalar value that starts at s[i], 0 if the
\* bytes there are not a well-formed encoding (core::str::from_utf8).
Utf8Width(s, i) ==
    LET n == Len(s)
        b == s[i]
        Cont(j) == j <= n /\ s[j] \in 128..191
    IN  IF b <= 127 THEN 1
        ELSE IF b \in 194..223 THEN (IF Cont(i + 1) THEN 2 ELSE 0)
        ELSE IF b \in 224..239 THEN
            (IF /\ Cont(i + 1) /\ Cont(i + 2)
                /\ (b = 224 => s[i + 1] >= 160)
                /\ (b = 237 => s[i + 1] <= 159)
             THEN 3 ELSE 0)
        ELSE IF b \in 240..244 THEN
            (IF /\ Cont(i + 1) /\ Cont(i + 2) /\ Cont(i + 3)
                /\ (b = 240 => s[i + 1] >= 144)
                /\ (b = 244 => s[i + 1] <= 143)
             THEN 4 ELSE 0)
        ELSE 0

RECURSIVE Utf8From(_, _)
Utf8From(s, i) ==
    IF i > Len(s) THEN TRUE
    ELSE LET w == Utf8Width(s, i)
         IN  w > 0 /\ Utf8From(s, i + w)

Utf8Valid(s) == Utf8From(s, 1)

\* char::is_whitespace (the Unicode White_Space property), on the UTF-8
\* encoding: the number of bytes of the white space character that ends s
\* (WsSuffix) or starts s (WsPrefix), 0 if there is none.
AsciiWs == {9, 10, 11, 12, 13, 32}

IsWs2(a, b) == a = 194 /\ b \in {133, 160}                   \* U+0085, U+00A0

IsWs3(a, b, c) ==
    \/ a = 225 /\ b = 154 /\ c = 128                         \* U+1680
    \/ a = 226 /\ b = 128 /\ c \in (128..138) \cup {168, 169, 175}
                                    \* U+2000..U+200A, U+2028, U+2029, U+202F
    \/ a = 226 /\ b = 129 /\ c = 159                         \* U+205F
    \/ a = 227 /\ b = 128 /\ c = 128                         \* U+3000

\* Faulty variant: only ASCII white space ends the text.
WsSuffix_ascii(s) ==
    IF Len(s) >= 1 /\ s[Len(s)] \in AsciiWs THEN 1 ELSE 0

WsSuffix(s) ==
    LET n == Len(s)
    IN  IF n >= 1 /\ s[n] \in AsciiWs THEN 1
        ELSE IF n >= 2 /\ IsWs2(s[n - 1], s[n]) THEN 2
        ELSE IF n >= 3 /\ IsWs3(s[n - 2], s[n - 1], s[n]) THEN 3
        ELSE 0

WsPrefix(s) ==
    LET n == Len(s)
    IN  IF n >= 1 /\ s[1] \in AsciiWs THEN 1
        ELSE IF n >= 2 /\ IsWs2(s[1], s[2]) THEN 2
        ELSE IF n >= 3 /\ IsWs3(s[1], s[2], s[3]) THEN 3
        ELSE 0

RECURSIVE trim_end(_)
trim_end(s) ==
    LET w == WsSuffix(s)
    IN  IF w = 0 THEN s ELSE trim_end(SubSeq(s, 1, Len(s) - w))

RECURSIVE trim_start(_)
trim_start(s) ==
    LET w == WsPrefix(s)
    IN  IF w = 0 THEN s ELSE trim_start(Drop(s, w + 1))

trim(s) == trim_start(trim_end(s))

\* rtrim: s.truncate(s.trim_end().len())
rtrim(s) == SubSeq(s, 1, Len(trim_end(s)))

\* str::find(':'): the index of the first colon, 0 for None.
RECURSIVE FindFrom(_, _, _)
FindFrom(s, b, i) ==
    IF i > Len(s) THEN 0
    ELSE IF s[i] = b THEN i
    ELSE FindFrom(s, b, i + 1)

find(s, b) == FindFrom(s, b, 1)

---------------------------------------------------------------------------
(* CaseString *)

to_ascii_lowercase(s) ==
    [i \in 1..Len(s) |-> IF s[i] \in 65..90 THEN s[i] + 32 ELSE s[i]]

\* Faulty variant: the constructor keeps the text as it is.
CaseString_from_verbatim(s) == [inner |-> s]

\* impl From<String> for CaseString
CaseString_from(s) == [inner |-> to_ascii_lowercase(s)]

\* CaseString::to_string / impl Into<String>
CaseString_to_string(k) == k.inner

\* #[derive(PartialEq, Eq)]: the structs are equal iff their fields are
CaseString_eq(a, b) == a.inner = b.inner

\* #[derive(Hash)]: the bytes written to the hasher are those of the field
CaseString_hash(k) == k.inner

\* impl PartialEq<String> for CaseString
CaseString_eq_String(k, other) == k.inner = to_ascii_lowercase(other)

---------------------------------------------------------------------------
(* HashMap<CaseString, String>: a function from the keys' stored form *)

EmptyMap == [k \in {} |-> <<>>]

\* Faulty variant: a key that is present keeps its value.
HashMap_insert_keep_first(h, k, v) ==
    [x \in DOMAIN h \cup {k.inner} |-> IF x \in DOMAIN h THEN h[x] ELSE v]

HashMap_insert(h, k, v) ==
    [x \in DOMAIN h \cup {k.inner} |-> IF x = k.inner THEN v ELSE h[x]]

HashMap_contains(h, k) == k.inner \in DOMAIN h

\* HashMap::get, for a key that is present
HashMap_get(h, k) == h[k.inner]

---------------------------------------------------------------------------
(* str::parse::<usize>() and the allocation of the content buffer *)

IsDigit(b) == b \in 48..57

RECURSIVE StripZeros(_)
StripZeros(d) ==
    IF Len(d) > 0 /\ d[1] = 0 THEN StripZeros(Tail(d)) ELSE d

\* a > b for two digit sequences of the same length
RECURSIVE DigitsGreater(_, _)
DigitsGreater(a, b) ==
    IF Len(a) = 0 THEN FALSE
    ELSE IF a[1] # b[1] THEN a[1] > b[1]
    ELSE DigitsGreater(Tail(a), Tail(b))

\* The number with significant digits a exceeds the one with digits m.
Exceeds(a, m) ==
    \/ Len(a) > Len(m)
    \/ Len(a) = Len(m) /\ DigitsGreater(a, m)

\* usize::from_str: an optional '+', then one or more ASCII digits, the
\* value at most usize::MAX.  ok says whether it parsed; digits are the
\* value's significant decimal digits.
parse_usize(s) ==
    LET body == IF Len(s) > 0 /\ s[1] = 43 THEN Tail(s) ELSE s
        good == /\ Len(body) > 0
                /\ \A i \in 1..Len(body) : IsDigit(body[i])
        sig  == IF good
                THEN StripZeros([i \in 1..Len(body) |-> body[i] - 48])
                ELSE <<>>
    IN  [ok |-> good /\ ~Exceeds(sig, USIZE_MAX), digits |-> sig]

RECURSIVE DigitsValue(_, _)
DigitsValue(d, acc) ==
    IF Len(d) = 0 THEN acc ELSE DigitsValue(Tail(d), 10 * acc + d[1])

\* The value as a number; ten digits or more stand for 10^9, which is more
\* than any stream of the model holds.
usize_value(d) == IF Len(d) > 9 THEN 1000000000 ELSE DigitsValue(d, 0)

---------------------------------------------------------------------------
(* BufRead over an in-memory byte slice *)

\* BufRead::read_line into an empty String: the bytes from the cursor up to
\* and including the next LF (or to the end of the stream) are consumed; if
\* they are not valid UTF-8 the call fails and the String stays empty.
read_line(d, p) ==
    LET nl   == FindFrom(d, LF, p + 1)
        stop == IF nl = 0 THEN Len(d) ELSE nl
        line == SubSeq(d, p + 1, stop)
    IN  IF Utf8Valid(line)
        THEN [err |-> FALSE, line |-> line, pos |-> stop]
        ELSE [err |-> TRUE, line |-> <<>>, pos |-> stop]

\* Faulty variant: one byte too many is taken.
read_exact_one_more(d, p, n) ==
    IF Len(d) - p >= n + 1
    THEN [err |-> FALSE, buf |-> SubSeq(d, p + 1, p + n + 1), pos |-> p + n + 1]
    ELSE [err |-> TRUE, buf |-> <<>>, pos |-> Len(d)]

\* Read::read_exact of n bytes: all of them, or UnexpectedEof with what was
\* left of the stream consumed.
read_exact(d, p, n) ==
    IF Len(d) - p >= n
    THEN [err |-> FALSE, buf |-> SubSeq(d, p + 1, p + n), pos |-> p + n]
    ELSE [err |-> TRUE, buf |-> <<>>, pos |-> Len(d)]

---------------------------------------------------------------------------
(* WarcRecord::parse *)

NoRecord == [version |-> <<>>, header |-> EmptyMap, content |-> <<>>]

\* What parse returns, with the cursor it leaves behind.  kind is "Ok" for
\* Ok(record), "EOF", "Malformed" and "IO" for the variants of WarcError,
\* and "Panic" for a call that unwinds instead of returning.
Outcome(kind, msg, rec, p) == [kind |-> kind, msg |-> msg, rec |-> rec, pos |-> p]

Malformed(msg, p) == Outcome("Malformed", msg, NoRecord, p)
IO(cause, p) == Outcome("IO", cause, NoRecord, p)

\* Faulty variant: the header name is stored as written.
header_field_verbatim(line_buf) ==
    LET semi == find(line_buf, COLON)
    IN  IF semi = 0 THEN [found |-> FALSE]
        ELSE [found |-> TRUE,
              name  |-> CaseString_from_verbatim(rtrim(SubSeq(line_buf, 1, semi - 1))),
              value |-> trim(Drop(line_buf, semi + 1))]

\* Faulty variant: the line is split at its last colon.
RECURSIVE rfind(_, _)
rfind(s, b) ==
    IF Len(s) = 0 THEN 0
    ELSE IF s[Len(s)] = b THEN Len(s)
    ELSE rfind(SubSeq(s, 1, Len(s) - 1), b)

header_field_last_colon(line_buf) ==
    LET semi == rfind(line_buf, COLON)
    IN  IF semi = 0 THEN [found |-> FALSE]
        ELSE [found |-> TRUE,
              name  |-> CaseString_from(rtrim(SubSeq(line_buf, 1, semi - 1))),
              value |-> trim(Drop(line_buf, semi + 1))]

\* One header line, already right-trimmed, split at its first colon: the
\* value is split_off(semi + 1).trim(), the name is what is left with the
\* colon popped and the right end trimmed, made a CaseString.
header_field(line_buf) ==
    LET semi == find(line_buf, COLON)
    IN  IF semi = 0 THEN [found |-> FALSE]
        ELSE [found |-> TRUE,
              name  |-> CaseString_from(rtrim(SubSeq(line_buf, 1, semi - 1))),
              value |-> trim(Drop(line_buf, semi + 1))]

\* Faulty variant: the end of the stream inside the header block is an IO
\* error.
RECURSIVE header_loop_eof_is_io(_, _, _)
header_loop_eof_is_io(d, p, h) ==
    LET r == read_line(d, p)
    IN  IF r.err \/ r.line = <<>> THEN [kind |-> "IO", header |-> h, pos |-> r.pos]
        ELSE IF r.line = CRLF \/ r.line = <<LF>>
        THEN [kind |-> "Break", header |-> h, pos |-> r.pos]
        ELSE LET f == header_field(rtrim(r.line))
             IN  IF f.found
                 THEN header_loop_eof_is_io(d, r.pos, HashMap_insert(h, f.name, f.value))
                 ELSE [kind |-> "Malformed", header |-> h, pos |-> r.pos]

\* The loop over the header lines, entered with the cursor at p and the
\* fields read so far in h.  kind is "Break" when the blank line was read.
RECURSIVE header_loop(_, _, _)
header_loop(d, p, h) ==
    LET r == read_line(d, p)
    IN  IF r.err THEN [kind |-> "IO", header |-> h, pos |-> r.pos]
        ELSE IF r.line = CRLF \/ r.line = <<LF>>
        THEN [kind |-> "Break", header |-> h, pos |-> r.pos]
        ELSE LET f == header_field(rtrim(r.line))
             IN  IF f.found
                 THEN header_loop(d, r.pos, HashMap_insert(h, f.name, f.value))
                 ELSE [kind |-> "Malformed", header |-> h, pos |-> r.pos]

\* Faulty variant: the separator is not read.
read_separator_skipped(d, p, version, header, content) ==
    Outcome("Ok", "", [version |-> version, header |-> header, content |-> content], p)

\* Faulty variant: LF LF is taken for a separator too.
read_separator_lenient(d, p, version, header, content) ==
    LET s == read_exact(d, p, 4)
    IN  IF s.err THEN IO("UnexpectedEof", s.pos)
        ELSE IF s.buf # CRLFCRLF /\ SubSeq(s.buf, 1, 2) # <<LF, LF>>
        THEN Malformed("No double linefeed after record content", s.pos)
        ELSE Outcome("Ok", "",
                     [version |-> version, header |-> header, content |-> content],
                     s.pos)

\* The four bytes after the content, and the record if they are CR LF CR LF.
read_separator(d, p, version, header, content) ==
    LET s == read_exact(d, p, 4)
    IN  IF s.err THEN IO("UnexpectedEof", s.pos)
        ELSE IF s.buf # CRLFCRLF
        THEN Malformed("No double linefeed after record content", s.pos)
        ELSE Outcome("Ok", "",
                     [version |-> version, header |-> header, content |-> content],
                     s.pos)

\* Faulty variant: one content byte too many is read.
read_content_one_more(d, p, version, header, digits) ==
    LET c == read_exact_one_more(d, p, usize_value(digits))
    IN  IF c.err THEN IO("UnexpectedEof", c.pos)
        ELSE read_separator(d, c.pos, version, header, c.buf)

\* vec![0; content_len] and read_exact into it: a length above isize::MAX
\* makes the allocation panic ("capacity overflow").
read_content(d, p, version, header, digits) ==
    IF Exceeds(digits, ISIZE_MAX)
    THEN Outcome("Panic", "capacity overflow", NoRecord, p)
    ELSE LET c == read_exact(d, p, usize_value(digits))
         IN  IF c.err THEN IO("UnexpectedEof", c.pos)
             ELSE read_separator(d, c.pos, version, header, c.buf)

\* Faulty variant: a missing Content-Length counts as 0.
content_length_defaulted(d, p, version, header) ==
    LET key == CaseString_from(CONTENT_LENGTH)
    IN  IF ~HashMap_contains(header, key)
        THEN read_content(d, p, version, header, <<>>)
        ELSE LET n == parse_usize(HashMap_get(header, key))
             IN  IF ~n.ok THEN Malformed("Content-Length is not a number", p)
                 ELSE read_content(d, p, version, header, n.digits)

\* The lookup of Content-Length and what follows the header block.
content_length(d, p, version, header) ==
    LET key == CaseString_from(CONTENT_LENGTH)
    IN  IF ~HashMap_contains(header, key)
        THEN Malformed("Content-Length is missing", p)
        ELSE LET n == parse_usize(HashMap_get(header, key))
             IN  IF ~n.ok THEN Malformed("Content-Length is not a number", p)
                 ELSE read_content(d, p, version, header, n.digits)

\* Faulty variant: a zero-byte read is not told from a line.
version_line_no_eof(d, p) ==
    LET r == read_line(d, p)
    IN  IF r.err THEN [kind |-> "IO", version |-> <<>>, pos |-> r.pos]
        ELSE IF ~starts_with(rtrim(r.line), WARC_PREFIX)
        THEN [kind |-> "Malformed", version |-> <<>>, pos |-> r.pos]
        ELSE [kind |-> "Version", version |-> rtrim(r.line), pos |-> r.pos]

\* Faulty variant: the prefix of the version line is not looked at.
version_line_unchecked(d, p) ==
    LET r == read_line(d, p)
    IN  IF r.err THEN [kind |-> "IO", version |-> <<>>, pos |-> r.pos]
        ELSE IF r.line = <<>> THEN [kind |-> "EOF", version |-> <<>>, pos |-> r.pos]
        ELSE [kind |-> "Version", version |-> rtrim(r.line), pos |-> r.pos]

\* Faulty variant: the version is stored as it was read.
version_line_untrimmed(d, p) ==
    LET r == read_line(d, p)
    IN  IF r.err THEN [kind |-> "IO", version |-> <<>>, pos |-> r.pos]
        ELSE IF r.line = <<>> THEN [kind |-> "EOF", version |-> <<>>, pos |-> r.pos]
        ELSE IF ~starts_with(rtrim(r.line), WARC_PREFIX)
        THEN [kind |-> "Malformed", version |-> <<>>, pos |-> r.pos]
        ELSE [kind |-> "Version", version |-> r.line, pos |-> r.pos]

\* The version line: kind is "Version" when it passed the prefix check.
version_line(d, p) ==
    LET r == read_line(d, p)
    IN  IF r.err THEN [kind |-> "IO", version |-> <<>>, pos |-> r.pos]
        ELSE IF r.line = <<>> THEN [kind |-> "EOF", version |-> <<>>, pos |-> r.pos]
        ELSE IF ~starts_with(rtrim(r.line), WARC_PREFIX)
        THEN [kind |-> "Malformed", version |-> <<>>, pos |-> r.pos]
        ELSE [kind |-> "Version", version |-> rtrim(r.line), pos |-> r.pos]

parse(d, p) ==
    LET v == version_line(d, p)
    IN  CASE v.kind = "IO" -> IO("InvalidData", v.pos)
          [] v.kind = "EOF" -> Outcome("EOF", "", NoRecord, v.pos)
          [] v.kind = "Malformed" -> Malformed("Unknown WARC version", v.pos)
          [] OTHER ->
               LET h == header_loop(d, v.pos, EmptyMap)
               IN  CASE h.kind = "IO" -> IO("InvalidData", h.pos)
                     [] h.kind = "Malformed" -> Malformed("Invalid header field", h.pos)
                     [] OTHER -> content_length(d, h.pos, v.version, h.header)

---------------------------------------------------------------------------
(* WarcReader *)

\* What one call of next() did: ret is "Ok", "Err" or "None" (the item
\* returned), parsed is the kind of parse's outcome ("NotCalled" when parse
\* was not invoked), from and to are the cursor before and after the call,
\* len is the number of bytes the source held when the call was made.
Call(ret, o, parsed, from, to) ==
    [ret |-> ret, parsed |-> parsed, msg |-> o.msg, rec |-> o.rec,
     from |-> from, to |-> to, len |-> Len(data)]

NotCalled == Outcome("NotCalled", "", NoRecord, 0)

\* Faulty variant: an error leaves the iterator usable.
valid_after_never_poisoned(vs, o) == vs

\* valid_state after parse returned o: only the arm Err(e), e not EOF,
\* assigns it.
valid_after(vs, o) ==
    IF o.kind \in {"Ok", "EOF"} THEN vs ELSE FALSE

\* Faulty variant: EOF is handed to the caller like any error.
item_eof_surfaced(o) ==
    IF o.kind = "Ok" THEN "Ok" ELSE "Err"

\* The item next() returns for parse's outcome o.
item(o) ==
    CASE o.kind = "Ok" -> "Ok"
      [] o.kind = "EOF" -> "None"
      [] OTHER -> "Err"

\* Faulty variant: the flag is not looked at.
poisoned_ignored(vs) == FALSE

\* if !self.valid_state { return None; }
poisoned(vs) == ~vs

---------------------------------------------------------------------------
(* Inputs *)

MaxFrags == 3     \* pieces per stream
MaxHdrs == 2      \* header lines per record, where the header lines vary
MaxCalls == 4     \* calls of next() on one iterator
MaxText == 2      \* characters per text handed to CaseString::from

RECURSIVE Flatten(_)
Flatten(ss) == IF Len(ss) = 0 THEN <<>> ELSE Head(ss) \o Flatten(Tail(ss))

SeqsUpTo(S, n) == UNION {[1..k -> S] : k \in 0..n}

\* b'WARC/1.1\r\n'
V_11 == <<87, 65, 82, 67, 47, 49, 46, 49, 13, 10>>
\* b'WARC/1.0\n'
V_10_LF == <<87, 65, 82, 67, 47, 49, 46, 48, 10>>
\* b'WARC/1.\r\n'
V_BARE == <<87, 65, 82, 67, 47, 49, 46, 13, 10>>
\* b'WARC/1.0 \t\r\n'
V_TRAIL == <<87, 65, 82, 67, 47, 49, 46, 48, 32, 9, 13, 10>>
\* b'WARC/1.0\xc2\xa0\r\n'
V_NBSP == <<87, 65, 82, 67, 47, 49, 46, 48, 194, 160, 13, 10>>
\* b'HTTP/1.1\r\n'
V_HTTP == <<72, 84, 84, 80, 47, 49, 46, 49, 13, 10>>
\* b' WARC/1.0\r\n'
V_LEAD == <<32, 87, 65, 82, 67, 47, 49, 46, 48, 13, 10>>
\* b'warc/1.0\r\n'
V_LOWER == <<119, 97, 114, 99, 47, 49, 46, 48, 13, 10>>
\* b'\r\n'
V_BLANK == <<13, 10>>
\* b'WARC/1.0\xff\r\n'
V_BADUTF == <<87, 65, 82, 67, 47, 49, 46, 48, 255, 13, 10>>
\* b'WAR'
V_CUT == <<87, 65, 82>>
\* b'WARC/1.0'
V_NONL == <<87, 65, 82, 67, 47, 49, 46, 48>>
\* b'Content-Length: 4\r\n'
H_CL4 == <<67, 111, 110, 116, 101, 110, 116, 45, 76, 101, 110, 103, 116, 104, 58, 32, 52, 13, 10>>
\* b'content-length:0\n'
H_CL0_LOWER_LF == <<99, 111, 110, 116, 101, 110, 116, 45, 108, 101, 110, 103, 116, 104, 58, 48, 10>>
\* b'CONTENT-LENGTH: 2\r\n'
H_CL2_UPPER == <<67, 79, 78, 84, 69, 78, 84, 45, 76, 69, 78, 71, 84, 72, 58, 32, 50, 13, 10>>
\* b'Content-Length \t:  2 \r\n'
H_CL2_SPACED == <<67, 111, 110, 116, 101, 110, 116, 45, 76, 101, 110, 103, 116, 104, 32, 9, 58, 32, 32, 50, 32, 13, 10>>
\* b'Content-Length: +2\r\n'
H_CL_PLUS2 == <<67, 111, 110, 116, 101, 110, 116, 45, 76, 101, 110, 103, 116, 104, 58, 32, 43, 50, 13, 10>>
\* b'Content-Length: abc\r\n'
H_CL_ABC == <<67, 111, 110, 116, 101, 110, 116, 45, 76, 101, 110, 103, 116, 104, 58, 32, 97, 98, 99, 13, 10>>
\* b'Content-Length:\r\n'
H_CL_EMPTY == <<67, 111, 110, 116, 101, 110, 116, 45, 76, 101, 110, 103, 116, 104, 58, 13, 10>>
\* b'Content-Length: -1\r\n'
H_CL_NEG == <<67, 111, 110, 116, 101, 110, 116, 45, 76, 101, 110, 103, 116, 104, 58, 32, 45, 49, 13, 10>>
\* b'Content-Length: 18446744073709551616\r\n'
H_CL_OVER == <<67, 111, 110, 116, 101, 110, 116, 45, 76, 101, 110, 103, 116, 104, 58, 32, 49, 56, 52, 52, 54, 55, 52, 52, 48, 55, 51, 55, 48, 57, 53, 53, 49, 54, 49, 54, 13, 10>>
\* b'Content-Length: 9223372036854775808\r\n'
H_CL_CAP == <<67, 111, 110, 116, 101, 110, 116, 45, 76, 101, 110, 103, 116, 104, 58, 32, 57, 50, 50, 51, 51, 55, 50, 48, 51, 54, 56, 53, 52, 55, 55, 53, 56, 48, 56, 13, 10>>
\* b'Content-Length: 100\r\n'
H_CL100 == <<67, 111, 110, 116, 101, 110, 116, 45, 76, 101, 110, 103, 116, 104, 58, 32, 49, 48, 48, 13, 10>>
\* b' Content-Length: 2\r\n'
H_CL_LEAD == <<32, 67, 111, 110, 116, 101, 110, 116, 45, 76, 101, 110, 103, 116, 104, 58, 32, 50, 13, 10>>
\* b'WARC-Type: warcinfo\r\n'
H_TYPE == <<87, 65, 82, 67, 45, 84, 121, 112, 101, 58, 32, 119, 97, 114, 99, 105, 110, 102, 111, 13, 10>>
\* b'WARC-TYPE: response\n'
H_TYPE_UP == <<87, 65, 82, 67, 45, 84, 89, 80, 69, 58, 32, 114, 101, 115, 112, 111, 110, 115, 101, 10>>
\* b'X: a:b\r\n'
H_COLONS == <<88, 58, 32, 97, 58, 98, 13, 10>>
\* b'X:\xc2\xa0v\xc2\xa0\r\n'
H_NBSP == <<88, 58, 194, 160, 118, 194, 160, 13, 10>>
\* b'NoColon\r\n'
H_NOCOLON == <<78, 111, 67, 111, 108, 111, 110, 13, 10>>
\* b' \r\n'
H_WS == <<32, 13, 10>>
\* b'X: \xff\r\n'
H_BADUTF == <<88, 58, 32, 255, 13, 10>>
\* b': v\r\n'
H_NONAME == <<58, 32, 118, 13, 10>>
\* b'X: 1'
H_NONL == <<88, 58, 32, 49>>
\* b'\xc3\x89: 1\r\n'
H_EACUTE == <<195, 137, 58, 32, 49, 13, 10>>
\* b'Y: \xe3\x80\x80w\x0c\r\n' (U+3000 before the value, form feed after it)
H_WIDE == <<89, 58, 32, 227, 128, 128, 119, 12, 13, 10>>
\* b'test'
B_TEST == <<116, 101, 115, 116>>
\* b'ab'
B_AB == <<97, 98>>
\* b'\r\n'
B_CRLF == <<13, 10>>
\* b'\xff\x00'
B_BIN == <<255, 0>>
\* b'0123456789'
B_TEN == <<48, 49, 50, 51, 52, 53, 54, 55, 56, 57>>
\* b'\n\nab'
S_LFLF_AB == <<10, 10, 97, 98>>
\* b'\r\n'
S_SHORT == <<13, 10>>
\* b'\r\n\r\r'
S_CRLFCRCR == <<13, 10, 13, 13>>

\* One record, or what there is of it, as it is laid out in the stream.
Desc(ver, hdrs, blank, body, sep) ==
    [ver |-> ver, hdrs |-> hdrs, blank |-> blank, body |-> body, sep |-> sep]

Bytes(d) == d.ver \o Flatten(d.hdrs) \o d.blank \o d.body \o d.sep

StreamOf(fs) == Flatten([i \in 1..Len(fs) |-> Bytes(fs[i])])

G_S1 == Desc(V_11, <<H_TYPE, H_CL4>>, CRLF, B_TEST, CRLFCRLF)
G_ZERO == Desc(V_10_LF, <<H_CL0_LOWER_LF>>, <<LF>>, <<>>, CRLFCRLF)
G_UPPER == Desc(V_BARE, <<H_CL2_UPPER, H_TYPE_UP>>, CRLF, B_CRLF, CRLFCRLF)
T_CONTENT == Desc(V_11, <<H_CL100>>, CRLF, B_TEN, <<>>)
T_SEP == Desc(V_11, <<H_CL4>>, CRLF, B_TEST, S_SHORT)
T_HEADER == Desc(V_11, <<H_TYPE>>, <<>>, <<>>, <<>>)
X_VERSION == Desc(V_HTTP, <<>>, <<>>, <<>>, <<>>)
X_MISSING == Desc(V_11, <<H_TYPE>>, CRLF, <<>>, <<>>)
X_NUMBER == Desc(V_11, <<H_CL_ABC>>, CRLF, B_AB, CRLFCRLF)
X_SEP == Desc(V_11, <<H_CL4>>, CRLF, B_TEST, S_LFLF_AB)
X_UTF8 == Desc(V_11, <<H_BADUTF, H_CL4>>, CRLF, B_TEST, CRLFCRLF)
X_CAPACITY == Desc(V_11, <<H_CL_CAP>>, CRLF, <<>>, <<>>)
G_NBSP == Desc(V_11, <<H_NBSP, H_CL2_UPPER>>, CRLF, B_AB, CRLFCRLF)

StreamDescs ==
    {G_S1, G_ZERO, G_UPPER, T_CONTENT, T_SEP, T_HEADER,
     X_VERSION, X_MISSING, X_NUMBER, X_SEP, X_UTF8, X_CAPACITY}

VersionLines ==
    {V_11, V_10_LF, V_BARE, V_TRAIL, V_NBSP, V_HTTP, V_LEAD, V_LOWER,
     V_BLANK, V_BADUTF, V_CUT, V_NONL}

HeaderLines ==
    {H_CL4, H_CL0_LOWER_LF, H_CL2_UPPER, H_CL2_SPACED, H_CL_PLUS2, H_CL_ABC,
     H_CL_EMPTY, H_CL_NEG, H_CL_OVER, H_CL_CAP, H_CL100, H_CL_LEAD, H_TYPE,
     H_TYPE_UP, H_COLONS, H_NBSP, H_NOCOLON, H_WS, H_BADUTF, H_NONAME,
     H_NONL, H_EACUTE, H_WIDE}

LengthLines == {H_CL0_LOWER_LF, H_CL2_UPPER, H_CL4, H_CL_PLUS2, H_CL100}

Bodies == {<<>>, B_TEST, B_AB, B_CRLF, B_BIN, B_TEN}

Separators == {CRLFCRLF, S_LFLF_AB, S_SHORT, S_CRLFCRCR, <<>>}

\* Streams of whole and broken records in any order.
StreamInputs == SeqsUpTo(StreamDescs, MaxFrags)

\* One record whose version line varies.
VersionInputs ==
    {<<Desc(v, <<H_CL2_UPPER>>, CRLF, B_AB, CRLFCRLF)>> \o tail :
        v \in VersionLines, tail \in {<<>>, <<G_ZERO>>}}

\* One record whose header block varies.
HeaderInputs ==
    {<<Desc(V_11, hs, CRLF, B_AB, CRLFCRLF)>> :
        hs \in SeqsUpTo(HeaderLines, MaxHdrs)}

\* One record whose declared length, content and separator vary.
FramingInputs ==
    {<<Desc(V_11, <<cl>>, CRLF, body, sep)>> \o tail :
        cl \in LengthLines, body \in Bodies, sep \in Separators,
        tail \in {<<>>, <<G_ZERO>>}}

\* One record in which header names come twice, in the same or another case.
DuplicateInputs ==
    {<<Desc(V_11, <<a, H_CL2_UPPER, b>>, CRLF, B_AB, CRLFCRLF)>> :
        a \in {H_TYPE, H_TYPE_UP, H_COLONS, H_NBSP, H_CL4},
        b \in {H_TYPE, H_TYPE_UP, H_COLONS, H_CL2_SPACED}}

Min(a, b) == IF a < b THEN a ELSE b

Take(s, n) == SubSeq(s, 1, Min(n, Len(s)))

\* The lines ls cut off after n bytes
RECURSIVE CutLines(_, _)
CutLines(ls, n) ==
    IF Len(ls) = 0 \/ n = 0 THEN <<>>
    ELSE <<Take(Head(ls), n)>> \o CutLines(Tail(ls), n - Min(n, Len(Head(ls))))

\* The record d cut off after n bytes
CutDesc(d, n) ==
    LET h == Len(Flatten(d.hdrs))
        n1 == n - Min(n, Len(d.ver))
        n2 == n1 - Min(n1, h)
        n3 == n2 - Min(n2, Len(d.blank))
        n4 == n3 - Min(n3, Len(d.body))
    IN  Desc(Take(d.ver, n), CutLines(d.hdrs, n1), Take(d.blank, n2),
             Take(d.body, n3), Take(d.sep, n4))

\* The longest cut: one byte less than the longer of the two records cut
MaxCut == Len(Bytes(G_S1)) - 1

\* A stream that ends inside a record, at any of its bytes, after no or one
\* whole record.
CutInputs ==
    {pre \o <<CutDesc(d, n)>> :
        pre \in {<<>>, <<G_ZERO>>},
        d \in {G_S1, G_NBSP},
        n \in 1..MaxCut} \ {<<G_NBSP>>, <<G_ZERO, G_NBSP>>}

Inputs ==
    StreamInputs \cup VersionInputs \cup HeaderInputs \cup FramingInputs
        \cup DuplicateInputs \cup CutInputs

---------------------------------------------------------------------------
(* The iterator as a state machine *)

\* WarcReader::new(read) over each input
Init ==
    /\ frags \in Inputs
    /\ data = StreamOf(frags)
    /\ pos = 0
    /\ valid_state = TRUE
    /\ results = <<>>
    /\ crashed = FALSE
    /\ sa = <<>> /\ sb = <<>> /\ cmp = <<>>

CanCall == ~crashed /\ Len(results) < MaxCalls

\* next() on a poisoned iterator
NextPoisoned ==
    /\ CanCall
    /\ poisoned(valid_state)
    /\ results' = Append(results, Call("None", NotCalled, "NotCalled", pos, pos))
    /\ UNCHANGED <<frags, data, pos, valid_state, crashed, sa, sb, cmp>>

\* next() that calls parse and returns
NextParsed ==
    /\ CanCall
    /\ ~poisoned(valid_state)
    /\ LET o == parse(data, pos)
       IN  /\ o.kind # "Panic"
           /\ results' = Append(results, Call(item(o), o, o.kind, pos, o.pos))
           /\ pos' = o.pos
           /\ valid_state' = valid_after(valid_state, o)
    /\ UNCHANGED <<frags, data, crashed, sa, sb, cmp>>

\* next() whose call of parse panics: the call never returns
NextPanic ==
    /\ CanCall
    /\ ~poisoned(valid_state)
    /\ LET o == parse(data, pos)
       IN  /\ o.kind = "Panic"
           /\ pos' = o.pos
    /\ crashed' = TRUE
    /\ UNCHANGED <<frags, data, valid_state, results, sa, sb, cmp>>

Next == NextPoisoned \/ NextParsed \/ NextPanic

Spec == Init /\ [][Next]_vars

---------------------------------------------------------------------------
(* The iterator over a source that can deliver bytes after it reported its
   end: a file that is appended to, a terminal *)

GrowDescs == {G_S1, G_ZERO, T_SEP, X_VERSION, X_CAPACITY}

InitGrowing ==
    /\ frags \in SeqsUpTo(GrowDescs, MaxFrags - 1)
    /\ data = StreamOf(frags)
    /\ pos = 0
    /\ valid_state = TRUE
    /\ results = <<>>
    /\ crashed = FALSE
    /\ sa = <<>> /\ sb = <<>> /\ cmp = <<>>

\* Bytes are appended to the source between two calls of next().
SourceGrows ==
    /\ ~crashed
    /\ Len(frags) < MaxFrags
    /\ \E d \in GrowDescs :
          /\ frags' = Append(frags, d)
          /\ data' = data \o Bytes(d)
    /\ UNCHANGED <<pos, valid_state, results, crashed, sa, sb, cmp>>

NextGrowing == NextPoisoned \/ NextParsed \/ NextPanic \/ SourceGrows

SpecGrowing == InitGrowing /\ [][NextGrowing]_vars

---------------------------------------------------------------------------
(* CaseString as a state machine: two texts are made keys and compared *)

\* Characters the texts are made of: A, a, k, the Kelvin sign U+212A (whose
\* Unicode lower case is k), E with acute U+00C9 and e with acute U+00E9.
Chars == {<<65>>, <<97>>, <<107>>, <<226, 132, 170>>, <<195, 137>>, <<195, 169>>}

Texts == {Flatten(cs) : cs \in SeqsUpTo(Chars, MaxText)}

InitCase ==
    /\ sa \in Texts
    /\ sb \in Texts
    /\ cmp = <<>>
    /\ frags = <<>> /\ data = <<>> /\ pos = 0
    /\ valid_state = TRUE /\ results = <<>> /\ crashed = FALSE

\* CaseString::from(sa) == CaseString::from(sb), their hashes, and the key
\* made again from the first key's text
Compare ==
    /\ cmp = <<>>
    /\ LET ka == CaseString_from(sa)
           kb == CaseString_from(sb)
       IN  cmp' = [ka |-> ka, kb |-> kb,
                   eq |-> CaseString_eq(ka, kb),
                   ha |-> CaseString_hash(ka), hb |-> CaseString_hash(kb),
                   again |-> CaseString_from(CaseString_to_string(ka))]
    /\ UNCHANGED <<frags, data, pos, valid_state, results, crashed, sa, sb>>

NextCase == Compare

SpecCase == InitCase /\ [][NextCase]_vars

---------------------------------------------------------------------------
(* Properties of the iterator *)

Rets == [i \in 1..Len(results) |-> results[i].ret]

\* C1: the items returned by successive calls of next() are zero or more
\* Ok, then at most one Err, then only None: nothing but None follows an
\* Err or a None.
C1_OkErrNone ==
    \A i \in 1..Len(results) : \A j \in 1..Len(results) :
        (i < j /\ Rets[i] \in {"Err", "None"}) => Rets[j] = "None"

\* C1 witness: an Ok, then the error, then None.
C1_Witness ==
    /\ Len(results) >= 3
    /\ Rets[1] = "Ok" /\ Rets[2] = "Err" /\ Rets[3] = "None"

\* C2: valid_state is true after construction; a step that clears it is a
\* call of next() that returned Some(Err(e)) with e Malformed or IO; no
\* step sets it again; and a call made while it is false returns None.
C2_ValidState ==
    /\ valid_state = TRUE
    /\ [][/\ (valid_state /\ ~valid_state') =>
                /\ results' = Append(results, results'[Len(results')])
                /\ results'[Len(results')].ret = "Err"
                /\ results'[Len(results')].parsed \in {"Malformed", "IO"}
          /\ ~valid_state => ~valid_state'
          /\ (~valid_state /\ results' # results) =>
                /\ Len(results') = Len(results) + 1
                /\ results'[Len(results')].ret = "None"]_vars

\* C2 witness: a call was made on a poisoned iterator.
C2_Witness ==
    /\ ~valid_state
    /\ Len(results) >= 2
    /\ results[Len(results)].parsed = "NotCalled"

---------------------------------------------------------------------------
(* The format, stated on the bytes of the stream independently of parse *)

\* A line without its terminator, LF or CR LF.
Chomp(line) ==
    LET n == Len(line)
    IN  IF n >= 2 /\ line[n - 1] = 13 /\ line[n] = 10 THEN SubSeq(line, 1, n - 2)
        ELSE IF n >= 1 /\ line[n] = 10 THEN SubSeq(line, 1, n - 1)
        ELSE line

Terminated(line) == Len(line) >= 1 /\ line[Len(line)] = 10

\* ASCII case folding of one byte and of a text
FoldByte(b) == IF b >= 65 /\ b <= 90 THEN b + 32 ELSE b
Fold(s) == [i \in 1..Len(s) |-> FoldByte(s[i])]
Upper(s) == [i \in 1..Len(s) |-> IF s[i] >= 97 /\ s[i] <= 122 THEN s[i] - 32 ELSE s[i]]

\* s without the bytes of W at its right end, at its left end
RECURSIVE StripRight(_, _)
StripRight(s, W) ==
    IF Len(s) > 0 /\ s[Len(s)] \in W THEN StripRight(SubSeq(s, 1, Len(s) - 1), W)
    ELSE s

RECURSIVE StripLeft(_, _)
StripLeft(s, W) ==
    IF Len(s) > 0 /\ s[1] \in W THEN StripLeft(Tail(s), W) ELSE s

Blanks == {9, 10, 13, 32}                       \* tab, LF, CR, space

HasColon(line) == \E i \in 1..Len(line) : line[i] = 58

ColonAt(line) ==
    CHOOSE i \in 1..Len(line) : line[i] = 58 /\ \A j \in 1..(i - 1) : line[j] # 58

\* The name and the value a header line with a colon stands for.
NameOf(line) == StripRight(SubSeq(line, 1, ColonAt(line) - 1), Blanks)
ValueOf(line) ==
    StripLeft(StripRight(SubSeq(line, ColonAt(line) + 1, Len(line)), Blanks), Blanks)

LowerContentLength ==
    <<99, 111, 110, 116, 101, 110, 116, 45, 108, 101, 110, 103, 116, 104>>

IsLengthLine(line) == HasColon(line) /\ Fold(NameOf(line)) = LowerContentLength

RECURSIVE DecimalOf(_)
DecimalOf(n) ==
    IF n < 10 THEN <<48 + n>> ELSE DecimalOf(n \div 10) \o <<48 + (n % 10)>>

\* version-line = "WARC/1." { digit }, ended by CR LF or LF
ValidVersionLine(v) ==
    LET b == Chomp(v)
    IN  /\ Terminated(v)
        /\ Len(b) >= 7
        /\ SubSeq(b, 1, 7) = <<87, 65, 82, 67, 47, 49, 46>>
        /\ \A i \in 8..Len(b) : b[i] \in 48..57

\* field = name ":" value, the name a token of visible ASCII without colon,
\* the value UTF-8 text without CR and LF, ended by CR LF or LF
ValidFieldLine(h) ==
    LET b == Chomp(h)
    IN  /\ Terminated(h)
        /\ HasColon(b)
        /\ ColonAt(b) > 1
        /\ \A i \in 1..(ColonAt(b) - 1) : b[i] \in 33..126
        /\ \A i \in 1..Len(b) : b[i] \notin {10, 13}
        /\ Utf8Valid(b)

\* A whole record: its one Content-Length field gives the length of its
\* content in decimal, and CR LF CR LF follows the content.
ValidRecord(d) ==
    /\ ValidVersionLine(d.ver)
    /\ \A i \in 1..Len(d.hdrs) : ValidFieldLine(d.hdrs[i])
    /\ Cardinality({i \in 1..Len(d.hdrs) : IsLengthLine(d.hdrs[i])}) = 1
    /\ \A i \in 1..Len(d.hdrs) :
          IsLengthLine(d.hdrs[i]) => ValueOf(d.hdrs[i]) = DecimalOf(Len(d.body))
    /\ d.blank \in {<<13, 10>>, <<10>>}
    /\ d.sep = <<13, 10, 13, 10>>

\* The number of bytes of the first k pieces of the stream
Offset(k) == Len(StreamOf(SubSeq(frags, 1, k)))

\* The cursor after the blank line that ends the header block of the
\* record starting at cursor p: the first line after the version line that
\* is CR LF or LF alone.  -1 if the stream has no such line.
RECURSIVE BlankLineEnd(_, _)
BlankLineEnd(d, p) ==
    LET nl == FindFrom(d, 10, p + 1)
    IN  IF nl = 0 THEN -1
        ELSE IF nl = p + 1 \/ (nl = p + 2 /\ d[p + 1] = 13) THEN nl
        ELSE BlankLineEnd(d, nl)

ContentStart(d, p) ==
    LET nl == FindFrom(d, 10, p + 1)
    IN  IF nl = 0 THEN -1 ELSE BlankLineEnd(d, nl)

\* The number a text of decimal digits, with or without a leading +, reads
RECURSIVE DecimalValue(_)
DecimalValue(s) ==
    IF Len(s) = 0 THEN 0
    ELSE IF s[Len(s)] = 43 THEN 0
    ELSE 10 * DecimalValue(SubSeq(s, 1, Len(s) - 1)) + (s[Len(s)] - 48)

---------------------------------------------------------------------------

\* C3: on a stream of N valid records and nothing else, the k-th call of
\* next() returns Ok with the k-th record (its version, its header names,
\* its declared length, its content) and leaves the cursor at the first
\* byte after that record's CR LF CR LF; every later call returns None; no
\* call returns an error.
C3_ValidStream ==
    (\A i \in 1..Len(frags) : ValidRecord(frags[i])) =>
        /\ ~crashed
        /\ \A k \in 1..Len(results) :
              IF k <= Len(frags)
              THEN /\ results[k].ret = "Ok"
                   /\ results[k].from = Offset(k - 1)
                   /\ results[k].to = Offset(k)
                   /\ results[k].rec.version = Chomp(frags[k].ver)
                   /\ results[k].rec.content = frags[k].body
                   /\ DOMAIN results[k].rec.header =
                         {Fold(NameOf(frags[k].hdrs[i])) : i \in 1..Len(frags[k].hdrs)}
                   /\ results[k].rec.header[LowerContentLength] =
                         DecimalOf(Len(frags[k].body))
              ELSE results[k].ret = "None"

\* C3 witness: three valid records were returned and then None.
C3_Witness ==
    /\ Len(frags) = 3
    /\ \A i \in 1..Len(frags) : ValidRecord(frags[i])
    /\ Len(results) = 4
    /\ results[4].ret = "None"

\* C4: the content of every record returned is the bytes of the stream
\* that follow the blank line ending its header block, as many as its
\* Content-Length header says, and the call consumes exactly those bytes
\* and the four of the separator.
C4_ContentBytes ==
    \A k \in 1..Len(results) :
        results[k].ret = "Ok" =>
            LET start == ContentStart(data, results[k].from)
                n == DecimalValue(results[k].rec.header[LowerContentLength])
            IN  /\ start >= 0
                /\ Len(results[k].rec.content) = n
                /\ results[k].rec.content = SubSeq(data, start + 1, start + n)
                /\ results[k].to = start + n + 4

\* C4 witness: a record with binary content and a record with no content
\* were returned.
C4_Witness ==
    /\ \E k \in 1..Len(results) :
          results[k].ret = "Ok" /\ results[k].rec.content = <<255, 0>>
    /\ \E k \in 1..Len(results) :
          results[k].ret = "Ok" /\ results[k].rec.content = <<>>

\* C5: a call of next() that finds the stream exhausted (parse reads zero
\* bytes for the version line) gets EOF from parse and returns None; it
\* yields no error and leaves valid_state true.
C5_CleanEOF ==
    \A k \in 1..Len(results) :
        (results[k].parsed # "NotCalled" /\ results[k].from = Len(data)) =>
            /\ results[k].parsed = "EOF"
            /\ results[k].ret = "None"
            /\ results[k].to = results[k].from
            /\ valid_state

\* C5 witness: next() was called twice on an empty stream.
C5_Witness ==
    /\ data = <<>>
    /\ Len(results) = 2
    /\ results[1].parsed = "EOF" /\ results[2].parsed = "EOF"

\* C6: no call of next() returns Some(Err(EOF)): an EOF from parse is
\* returned as None, and every error returned is Malformed or IO.
C6_NoEOFItem ==
    \A k \in 1..Len(results) :
        /\ results[k].parsed = "EOF" => results[k].ret = "None"
        /\ results[k].ret = "Err" => results[k].parsed \in {"Malformed", "IO"}

\* C6 witness: parse reported EOF to a call of next().
C6_Witness ==
    /\ Len(results) = 2
    /\ results[1].ret = "Ok"
    /\ results[2].parsed = "EOF"

---------------------------------------------------------------------------
(* The first record of the stream, as it was laid out *)

HeaderBytes(d) == Len(d.ver) + Len(Flatten(d.hdrs)) + Len(d.blank)

LengthLinesOf(d) == {i \in 1..Len(d.hdrs) : IsLengthLine(d.hdrs[i])}

LastLengthLine(d) ==
    CHOOSE i \in LengthLinesOf(d) : \A j \in LengthLinesOf(d) : j <= i

\* The version line passes, every header line is a terminated line of text
\* with a colon, and the blank line is there.
CompleteHeader(d) ==
    /\ ValidVersionLine(d.ver)
    /\ \A i \in 1..Len(d.hdrs) :
          Terminated(d.hdrs[i]) /\ HasColon(d.hdrs[i]) /\ Utf8Valid(d.hdrs[i])
    /\ d.blank \in {<<13, 10>>, <<10>>}

AllDigits(s) == Len(s) > 0 /\ \A i \in 1..Len(s) : s[i] \in 48..57

\* A decimal integer that is not negative, with or without a leading +
IsDecimal(s) ==
    \/ AllDigits(s)
    \/ Len(s) > 1 /\ s[1] = 43 /\ AllDigits(Tail(s))

\* The stream ends before the content announced by the digits len and the
\* four bytes of the separator.
EndsBefore(d, len) ==
    \/ Len(len) > 9
    \/ Len(len) <= 9 /\ Len(data) - HeaderBytes(d) < DecimalValue(len) + 4

\* The first record has a complete header block and one Content-Length, a
\* number below 10^19, and the stream ends before that many content bytes
\* and the separator.
TruncatedAfterHeader ==
    /\ Len(frags) >= 1
    /\ CompleteHeader(frags[1])
    /\ Cardinality(LengthLinesOf(frags[1])) = 1
    /\ LET len == ValueOf(frags[1].hdrs[LastLengthLine(frags[1])])
       IN  AllDigits(len) /\ Len(len) <= 19 /\ EndsBefore(frags[1], len)

\* C7: when the stream ends after a complete header block and before the
\* announced content and the separator, the call of next() returns
\* Some(Err(IO)) and every later call returns None.
C7_TruncatedIsIO ==
    TruncatedAfterHeader =>
        /\ ~crashed
        /\ \A k \in 1..Len(results) :
              IF k = 1
              THEN results[k].ret = "Err" /\ results[k].parsed = "IO"
              ELSE results[k].ret = "None"

\* What holds of the code instead: the same, for every announced length
\* that is at most isize::MAX.
C7_TruncatedWithinIsize ==
    (/\ TruncatedAfterHeader
     /\ ~Exceeds(parse_usize(ValueOf(frags[1].hdrs[LastLengthLine(frags[1])])).digits,
                 ISIZE_MAX)) =>
        /\ ~crashed
        /\ \A k \in 1..Len(results) :
              IF k = 1
              THEN results[k].ret = "Err" /\ results[k].parsed = "IO"
              ELSE results[k].ret = "None"

\* The k-th call returned the k-th piece of the stream as a record, and the
\* header lines of that piece are terminated lines with a colon.
ReturnedPiece(k) ==
    /\ k <= Len(frags)
    /\ results[k].ret = "Ok"
    /\ results[k].from = Offset(k - 1)
    /\ results[k].to = Offset(k)
    /\ \A i \in 1..Len(frags[k].hdrs) :
          Terminated(frags[k].hdrs[i]) /\ HasColon(frags[k].hdrs[i])

\* The spellings of a name in other ASCII case
Spellings(name) == {name, Fold(name), Upper(name)}

\* C8: in a record returned, a header is found under every ASCII-case
\* spelling of its name, with the same value: of the name as stored, and of
\* the name as written in the stream.  And a complete header block with a
\* Content-Length line, in whatever case, is never reported to miss it.
C8_CaseInsensitiveLookup ==
    /\ \A k \in 1..Len(results) :
          results[k].ret = "Ok" =>
              LET h == results[k].rec.header
              IN  /\ \A name \in DOMAIN h : \A s \in Spellings(name) :
                        /\ HashMap_contains(h, CaseString_from(s))
                        /\ HashMap_get(h, CaseString_from(s)) = h[name]
                  /\ ReturnedPiece(k) =>
                        \A i \in 1..Len(frags[k].hdrs) :
                            \A s \in Spellings(NameOf(frags[k].hdrs[i])) :
                                HashMap_contains(h, CaseString_from(s))
    /\ (/\ Len(results) >= 1
        /\ Len(frags) >= 1
        /\ CompleteHeader(frags[1])
        /\ LengthLinesOf(frags[1]) # {}) =>
            results[1].msg # "Content-Length is missing"

\* C8 witness: a record was returned whose Content-Length and WARC-Type
\* were written in upper case in the stream.
C8_Witness ==
    /\ Len(results) >= 1
    /\ ReturnedPiece(1)
    /\ frags[1].hdrs = <<H_CL2_UPPER, H_TYPE_UP>>

\* C9: two keys are equal iff their texts are equal after folding the ASCII
\* upper case letters; the stored form is the text with A..Z folded and
\* every other byte, the non-ASCII ones among them, as it was; equal keys
\* hash alike; and a key made from a key's text is that key.
C9_CaseString ==
    cmp # <<>> =>
        /\ cmp.eq <=> (Fold(sa) = Fold(sb))
        /\ Len(cmp.ka.inner) = Len(sa)
        /\ \A i \in 1..Len(sa) :
              cmp.ka.inner[i] = (IF sa[i] \in 65..90 THEN sa[i] + 32 ELSE sa[i])
        /\ cmp.eq => cmp.ha = cmp.hb
        /\ CaseString_eq(cmp.again, cmp.ka)

\* C9 witness: texts that differ in ASCII case only and hold a non-ASCII
\* character were found equal.
C9_Witness ==
    /\ cmp # <<>>
    /\ sa = <<65, 195, 137>>
    /\ sb = <<97, 195, 137>>
    /\ cmp.eq

\* C10: after a complete header block, parse returns Malformed("Content-Length
\* is missing") if no header's folded name is content-length, and
\* Malformed("Content-Length is not a number") if the value stored for it is
\* no decimal integer; the cursor stays after the blank line, the call
\* returns the error and every later call returns None.
C10_ContentLengthErrors ==
    (Len(results) >= 1 /\ Len(frags) >= 1 /\ CompleteHeader(frags[1])) =>
        LET d == frags[1]
            Failed(msg) ==
                /\ results[1].ret = "Err"
                /\ results[1].parsed = "Malformed"
                /\ results[1].msg = msg
                /\ results[1].to = HeaderBytes(d)
                /\ \A k \in 2..Len(results) : results[k].ret = "None"
        IN  /\ LengthLinesOf(d) = {} => Failed("Content-Length is missing")
            /\ (/\ LengthLinesOf(d) # {}
                /\ ~IsDecimal(ValueOf(d.hdrs[LastLengthLine(d)]))) =>
                   Failed("Content-Length is not a number")

\* C10 witness: a negative Content-Length was reported, and then None.
C10_Witness ==
    /\ Len(results) = 2
    /\ frags[1].hdrs = <<H_TYPE, H_CL_NEG>>
    /\ results[1].msg = "Content-Length is not a number"
    /\ results[2].ret = "None"

---------------------------------------------------------------------------
(* Whitespace as the record format sees it: the characters with the Unicode
   property White_Space, each as its UTF-8 bytes *)

WhiteChars ==
    {<<b>> : b \in {9, 10, 11, 12, 13, 32}}
        \cup {<<194, 133>>, <<194, 160>>, <<225, 154, 128>>}
        \cup {<<226, 128, b>> : b \in 128..138}
        \cup {<<226, 128, 168>>, <<226, 128, 169>>, <<226, 128, 175>>,
              <<226, 129, 159>>, <<227, 128, 128>>}

EndsWith(s, w) ==
    Len(s) >= Len(w) /\ SubSeq(s, Len(s) - Len(w) + 1, Len(s)) = w

BeginsWith(s, w) == Len(s) >= Len(w) /\ SubSeq(s, 1, Len(w)) = w

\* s without the characters of W at its right end, at its left end
RECURSIVE StripCharsRight(_, _)
StripCharsRight(s, W) ==
    IF \E w \in W : EndsWith(s, w)
    THEN LET w == CHOOSE w \in W : EndsWith(s, w)
         IN  StripCharsRight(SubSeq(s, 1, Len(s) - Len(w)), W)
    ELSE s

RECURSIVE StripCharsLeft(_, _)
StripCharsLeft(s, W) ==
    IF \E w \in W : BeginsWith(s, w)
    THEN LET w == CHOOSE w \in W : BeginsWith(s, w)
         IN  StripCharsLeft(SubSeq(s, Len(w) + 1, Len(s)), W)
    ELSE s

\* The name and the value of a header line with a colon, whitespace being
\* the characters of WhiteChars
NameU(line) == StripCharsRight(SubSeq(line, 1, ColonAt(line) - 1), WhiteChars)
ValueU(line) ==
    StripCharsLeft(
        StripCharsRight(SubSeq(line, ColonAt(line) + 1, Len(line)), WhiteChars),
        WhiteChars)

\* The line of the stream d that starts after cursor p: up to and with the
\* next LF, or up to the end of the stream.
LineAt(d, p) ==
    LET nl == FindFrom(d, 10, p + 1)
    IN  SubSeq(d, p + 1, IF nl = 0 THEN Len(d) ELSE nl)

Prefix7 == <<87, 65, 82, 67, 47, 49, 46>>       \* b'WARC/1.'

---------------------------------------------------------------------------

\* C11: when the first line of a record is non-empty text that, with its
\* trailing whitespace removed, does not begin with WARC/1., parse returns
\* Malformed("Unknown WARC version") having read that line and nothing
\* after it; when it begins with WARC/1. (also when it is WARC/1. alone)
\* the version check passes, and a record that is returned has that text,
\* trailing whitespace removed, as its version.
C11_VersionPrefix ==
    \A k \in 1..Len(results) :
        LET r == results[k]
            line == LineAt(data, r.from)
            text == StripCharsRight(line, WhiteChars)
        IN  (r.parsed # "NotCalled" /\ Len(line) > 0 /\ Utf8Valid(line)) =>
                IF BeginsWith(text, Prefix7)
                THEN /\ r.msg # "Unknown WARC version"
                     /\ r.ret = "Ok" => r.rec.version = text
                ELSE /\ r.ret = "Err"
                     /\ r.parsed = "Malformed"
                     /\ r.msg = "Unknown WARC version"
                     /\ r.to = r.from + Len(line)

\* C11 witness: a record whose version line is WARC/1. alone was returned,
\* and the next record, whose first line is HTTP/1.1, was refused with
\* header lines still unread after that line.
C11_Witness ==
    /\ Len(results) >= 2
    /\ results[1].ret = "Ok"
    /\ results[1].rec.version = Prefix7
    /\ LineAt(data, results[2].from) = V_HTTP
    /\ results[2].msg = "Unknown WARC version"
    /\ results[2].to < Len(data)

\* The folded name of the i-th header line of the piece d
KeyOf(d, i) == Fold(NameU(d.hdrs[i]))

\* The last header line of the piece d with the folded name of the i-th
LastOf(d, i) ==
    CHOOSE j \in 1..Len(d.hdrs) :
        /\ KeyOf(d, j) = KeyOf(d, i)
        /\ \A m \in (j + 1)..Len(d.hdrs) : KeyOf(d, m) # KeyOf(d, i)

\* C12: the header mapping of a record returned has one entry for each
\* folded name of the lines of its header block and no other entry, and
\* the value of an entry is the trimmed value of the last line with that
\* folded name, in whatever ASCII case the lines spell it.
C12_LastOccurrenceWins ==
    \A k \in 1..Len(results) :
        (ReturnedPiece(k) /\ Terminated(frags[k].ver)) =>
            LET d == frags[k]
                h == results[k].rec.header
            IN  /\ DOMAIN h = {KeyOf(d, i) : i \in 1..Len(d.hdrs)}
                /\ \A i \in 1..Len(d.hdrs) :
                      h[KeyOf(d, i)] = ValueU(d.hdrs[LastOf(d, i)])

\* C12 witness: a record was returned whose header block named WARC-Type
\* and, after Content-Length, WARC-TYPE with another value; the mapping has
\* two entries and the second value.
C12_Witness ==
    /\ Len(results) >= 1
    /\ ReturnedPiece(1)
    /\ frags[1].hdrs = <<H_TYPE, H_CL2_UPPER, H_TYPE_UP>>
    /\ DOMAIN results[1].rec.header
          = {LowerContentLength, <<119, 97, 114, 99, 45, 116, 121, 112, 101>>}
    /\ results[1].rec.header[<<119, 97, 114, 99, 45, 116, 121, 112, 101>>]
          = <<114, 101, 115, 112, 111, 110, 115, 101>>

\* The last header line of the piece d with the name of the i-th, names
\* being what is left of the colon without trailing space, tab, CR and LF
LastAsciiOf(d, i) ==
    CHOOSE j \in 1..Len(d.hdrs) :
        /\ Fold(NameOf(d.hdrs[j])) = Fold(NameOf(d.hdrs[i]))
        /\ \A m \in (j + 1)..Len(d.hdrs) :
              Fold(NameOf(d.hdrs[m])) # Fold(NameOf(d.hdrs[i]))

\* C13 as the claim states it: the version, the names and the values of a
\* record returned are the texts of the stream without the space, tab, CR
\* and LF at their ends, and without nothing else: a non-ASCII whitespace
\* character at an end of a value is in the stored value.
C13_AsciiOnlyTrim ==
    \A k \in 1..Len(results) :
        (ReturnedPiece(k) /\ Terminated(frags[k].ver)) =>
            LET d == frags[k]
                h == results[k].rec.header
            IN  /\ results[k].rec.version = StripRight(d.ver, Blanks)
                /\ \A i \in 1..Len(d.hdrs) :
                      /\ Fold(NameOf(d.hdrs[i])) \in DOMAIN h
                      /\ h[Fold(NameOf(d.hdrs[i]))]
                            = ValueOf(d.hdrs[LastAsciiOf(d, i)])

\* C13, amended: trimming removes every character with the Unicode property
\* White_Space, the ASCII ones (tab, LF, VT, FF, CR, space) and the others
\* (U+0085, U+00A0, U+1680, U+2000..U+200A, U+2028, U+2029, U+202F, U+205F,
\* U+3000): the version is the first line without such characters at its
\* right end, a name the text left of the first colon without them at its
\* right end, a value the text right of it without them at both ends; such
\* characters inside a text stay.
C13_UnicodeTrim ==
    \A k \in 1..Len(results) :
        (ReturnedPiece(k) /\ Terminated(frags[k].ver)) =>
            LET d == frags[k]
                h == results[k].rec.header
            IN  /\ results[k].rec.version = StripCharsRight(d.ver, WhiteChars)
                /\ \A i \in 1..Len(d.hdrs) :
                      /\ KeyOf(d, i) \in DOMAIN h
                      /\ h[KeyOf(d, i)] = ValueU(d.hdrs[LastOf(d, i)])
                      /\ \A w \in WhiteChars :
                            ~BeginsWith(h[KeyOf(d, i)], w) /\ ~EndsWith(h[KeyOf(d, i)], w)

\* C13 witness: a record was returned whose header line X has U+00A0 on
\* both sides of the value v, and the stored value is v alone.
C13_Witness ==
    /\ Len(results) >= 1
    /\ ReturnedPiece(1)
    /\ frags[1].hdrs = <<H_NBSP, H_CL2_UPPER>>
    /\ results[1].rec.header[<<120>>] = <<118>>

\* The lines of the piece d before its content are a version line with the
\* prefix, header lines with a colon and the blank line, each text ended by
\* CR LF or by LF alone, and the last header line named Content-Length
\* gives up to nine decimal digits.
FramedHeader(d) ==
    /\ Terminated(d.ver) /\ Utf8Valid(d.ver) /\ BeginsWith(d.ver, Prefix7)
    /\ \A i \in 1..Len(d.hdrs) :
          Terminated(d.hdrs[i]) /\ HasColon(d.hdrs[i]) /\ Utf8Valid(d.hdrs[i])
    /\ d.blank \in {<<13, 10>>, <<10>>}
    /\ \E i \in 1..Len(d.hdrs) :
          /\ KeyOf(d, i) = LowerContentLength
          /\ AllDigits(ValueU(d.hdrs[LastOf(d, i)]))
          /\ Len(ValueU(d.hdrs[LastOf(d, i)])) <= 9

\* The length the header block of such a piece announces
AnnouncedLength(d) ==
    LET i == CHOOSE i \in 1..Len(d.hdrs) : KeyOf(d, i) = LowerContentLength
    IN  DecimalValue(ValueU(d.hdrs[LastOf(d, i)]))

\* Some line of the piece d before its content ends with LF alone
BareLF(line) ==
    Terminated(line) /\ (Len(line) = 1 \/ line[Len(line) - 1] # 13)

\* C14: a record whose version line, header lines and blank line end with
\* CR LF or with LF alone, in any mix, is read up to its content; what
\* decides then is the four bytes after the content: if they are 13, 10,
\* 13, 10 the record is returned, if they are any other four bytes the call
\* returns Malformed("No double linefeed after record content"), having
\* consumed them, and no record is returned by this or any later call.
C14_SeparatorExact ==
    \A k \in 1..Len(results) :
        LET r == results[k]
            d == frags[k]
            after == Offset(k - 1) + HeaderBytes(d) + AnnouncedLength(d)
        IN  (/\ k <= Len(frags)
             /\ r.parsed # "NotCalled"
             /\ r.from = Offset(k - 1)
             /\ FramedHeader(d)
             /\ Len(data) >= after + 4) =>
                IF SubSeq(data, after + 1, after + 4) = <<13, 10, 13, 10>>
                THEN /\ r.ret = "Ok"
                     /\ r.to = after + 4
                ELSE /\ r.ret = "Err"
                     /\ r.parsed = "Malformed"
                     /\ r.msg = "No double linefeed after record content"
                     /\ r.to = after + 4
                     /\ \A j \in (k + 1)..Len(results) : results[j].ret = "None"

\* C14 witness: a record whose lines all end with LF alone was returned,
\* and the next record, with LF LF a b after its content, was refused for
\* its separator; the call after that returned None.
C14_Witness ==
    /\ Len(results) >= 3
    /\ frags = <<G_ZERO, X_SEP>>
    /\ BareLF(frags[1].ver) /\ BareLF(frags[1].hdrs[1]) /\ BareLF(frags[1].blank)
    /\ results[1].ret = "Ok"
    /\ results[2].msg = "No double linefeed after record content"
    /\ results[2].to = Len(data)
    /\ results[3].ret = "None"

C16_PoisonedCallReadsNothing ==
    [][(~valid_state /\ results' # results) =>
          /\ Len(results') = Len(results) + 1
          /\ results'[Len(results')].parsed = "NotCalled"
          /\ results'[Len(results')].ret = "None"
          /\ results'[Len(results')].from = pos
          /\ results'[Len(results')].to = pos
          /\ pos' = pos
          /\ data' = data
          /\ ~valid_state']_vars

\* C16 witness: after an error that left bytes of the source unread, two
\* calls were made on the poisoned iterator; the bytes are still unread.
C16_Witness ==
    /\ Len(results) >= 3
    /\ results[1].ret = "Err"
    /\ results[2].parsed = "NotCalled"
    /\ results[3].parsed = "NotCalled"
    /\ ~valid_state
    /\ pos = results[1].to
    /\ pos < Len(data)

\* The piece d is a record cut off before its last byte
IsCut(d) ==
    \E g \in {G_S1, G_NBSP} : \E n \in 1..(Len(Bytes(g)) - 1) : d = CutDesc(g, n)

\* The stream is whole valid records and then a record cut off
EndsInCut ==
    /\ Len(frags) >= 1
    /\ IsCut(frags[Len(frags)])
    /\ \A i \in 1..(Len(frags) - 1) : ValidRecord(frags[i])

\* C17: parse reports EOF, and next() returns None with valid_state true,
\* only when the cursor is at the end of the stream before the call; when
\* the stream ends after one byte or more of a record and before the end
\* of its separator (in the version line, the header block, the content or
\* the separator), the call of next() that meets the cut returns Some(Err)
\* and sets valid_state to false: it returns neither None nor Ok.
C17_TruncationIsError ==
    /\ \A k \in 1..Len(results) :
          results[k].parsed = "EOF" =>
              results[k].from = Len(data) /\ results[k].to = Len(data)
    /\ EndsInCut =>
          /\ ~crashed
          /\ \A k \in 1..Len(results) :
                /\ k < Len(frags) => results[k].ret = "Ok"
                /\ k = Len(frags) =>
                      results[k].ret = "Err" /\ results[k].parsed \in {"IO", "Malformed"}
                /\ k > Len(frags) => results[k].parsed = "NotCalled"
          /\ Len(results) >= Len(frags) => ~valid_state
    /\ TruncatedAfterHeader =>
          /\ ~crashed
          /\ Len(results) >= 1 => results[1].ret = "Err" /\ ~valid_state

\* What holds of the code instead: the same, when the length the cut
\* record announces is at most isize::MAX.
C17_TruncationWithinIsize ==
    /\ \A k \in 1..Len(results) :
          results[k].parsed = "EOF" =>
              results[k].from = Len(data) /\ results[k].to = Len(data)
    /\ EndsInCut =>
          /\ ~crashed
          /\ \A k \in 1..Len(results) :
                /\ k < Len(frags) => results[k].ret = "Ok"
                /\ k = Len(frags) =>
                      results[k].ret = "Err" /\ results[k].parsed \in {"IO", "Malformed"}
                /\ k > Len(frags) => results[k].parsed = "NotCalled"
          /\ Len(results) >= Len(frags) => ~valid_state
    /\ (/\ TruncatedAfterHeader
        /\ ~Exceeds(parse_usize(ValueOf(frags[1].hdrs[LastLengthLine(frags[1])])).digits,
                    ISIZE_MAX)) =>
          /\ ~crashed
          /\ Len(results) >= 1 => results[1].ret = "Err" /\ ~valid_state

\* The first header line of the piece d that has no colon, 0 if all have
FirstWithoutColon(d) ==
    IF \A i \in 1..Len(d.hdrs) : HasColon(d.hdrs[i]) THEN 0
    ELSE CHOOSE i \in 1..Len(d.hdrs) :
             ~HasColon(d.hdrs[i]) /\ \A j \in 1..(i - 1) : HasColon(d.hdrs[j])

\* The text left of the first colon of a line, the text right of it
LeftOfColon(line) == SubSeq(line, 1, ColonAt(line) - 1)
RightOfColon(line) == SubSeq(line, ColonAt(line) + 1, Len(line))

\* C18: in a record returned, every header line stands in the mapping
\* under the folded text left of its first colon, with the whitespace at
\* the right end of that text removed and the whitespace at its left end
\* kept, and the value of the last line of a name is the text right of the
\* first colon with the whitespace at both ends removed, further colons
\* included.  And when the first line of a header block that has no colon,
\* after lines that have one, is a terminated line of text that is not the
\* blank line, parse returns Malformed("Invalid header field") having read
\* that line and nothing after it.
C18_SplitAtFirstColon ==
    /\ \A k \in 1..Len(results) :
          (ReturnedPiece(k) /\ Terminated(frags[k].ver)) =>
              LET d == frags[k]
                  h == results[k].rec.header
              IN  \A i \in 1..Len(d.hdrs) :
                      LET name == StripCharsRight(LeftOfColon(d.hdrs[i]), WhiteChars)
                          value == StripCharsLeft(
                                       StripCharsRight(RightOfColon(d.hdrs[i]), WhiteChars),
                                       WhiteChars)
                      IN  /\ Fold(name) \in DOMAIN h
                          /\ \A w \in WhiteChars :
                                BeginsWith(LeftOfColon(d.hdrs[i]), w) =>
                                    \E x \in DOMAIN h : BeginsWith(x, w)
                          /\ LastOf(d, i) = i => h[Fold(name)] = value
    /\ \A k \in 1..Len(results) :
          LET r == results[k]
              d == frags[k]
              i == FirstWithoutColon(d)
          IN  (/\ k <= Len(frags)
               /\ r.parsed # "NotCalled"
               /\ r.from = Offset(k - 1)
               /\ Terminated(d.ver) /\ Utf8Valid(d.ver) /\ BeginsWith(d.ver, Prefix7)
               /\ i > 0
               /\ \A j \in 1..i : Terminated(d.hdrs[j]) /\ Utf8Valid(d.hdrs[j])
               /\ d.hdrs[i] \notin {<<13, 10>>, <<10>>}) =>
                  /\ r.ret = "Err"
                  /\ r.parsed = "Malformed"
                  /\ r.msg = "Invalid header field"
                  /\ r.to = r.from + Len(d.ver) + Len(Flatten(SubSeq(d.hdrs, 1, i)))

\* C18 witness: a record with the header line "X: a:b" was returned with
\* the value a:b under x.
C18_Witness ==
    /\ Len(results) >= 1
    /\ ReturnedPiece(1)
    /\ \E i \in 1..Len(frags[1].hdrs) : frags[1].hdrs[i] = H_COLONS
    /\ results[1].rec.header[<<120>>] = <<97, 58, 98>>

\* The stream ends inside the header block of the record that starts after
\* cursor p: its first line is text that passes the prefix check, and no
\* blank line follows up to the end of the stream.
EndsInHeaderBlock(p) ==
    /\ p < Len(data)
    /\ Utf8Valid(LineAt(data, p))
    /\ BeginsWith(StripCharsRight(LineAt(data, p), WhiteChars), Prefix7)
    /\ ContentStart(data, p) = -1

\* C19 as the claim states it: when the stream ends inside the header
\* block, parse returns Malformed("Invalid header field"), not an IO error
\* and not EOF.
C19_CutHeaderIsMalformed ==
    \A k \in 1..Len(results) :
        (results[k].parsed # "NotCalled" /\ EndsInHeaderBlock(results[k].from)) =>
            /\ results[k].ret = "Err"
            /\ results[k].parsed = "Malformed"
            /\ results[k].msg = "Invalid header field"

\* C19, amended: when the stream ends inside the header block and the
\* bytes of the header block are UTF-8 text, parse returns
\* Malformed("Invalid header field"), also when every header line read has
\* a colon; when they are not, because a line holds an invalid byte or the
\* stream ends inside a character of more than one byte, parse returns that
\* or, if the line that is no text comes first, an IO error; it never
\* returns EOF or a record.
C19_CutTextHeaderIsMalformed ==
    \A k \in 1..Len(results) :
        LET r == results[k]
        IN  (r.parsed # "NotCalled" /\ EndsInHeaderBlock(r.from)) =>
                /\ r.ret = "Err"
                /\ r.parsed \in {"Malformed", "IO"}
                /\ r.parsed = "Malformed" => r.msg = "Invalid header field"
                /\ Utf8Valid(SubSeq(data, r.from + 1, Len(data))) =>
                      r.parsed = "Malformed"

\* C19 witness: the stream is a version line and one header line with a
\* colon, and the call returned Malformed("Invalid header field") with the
\* whole stream read.
C19_Witness ==
    /\ Len(results) >= 1
    /\ frags = <<T_HEADER>>
    /\ EndsInHeaderBlock(0)
    /\ HasColon(frags[1].hdrs[1])
    /\ results[1].msg = "Invalid header field"
    /\ results[1].to = Len(data)

\* C20: every record returned is well framed: its version begins with
\* WARC/1. and ends with no whitespace character; its header mapping has
\* the name content-length, with a value that reads as an integer n that
\* is not negative; its content is n bytes, the n bytes of the stream
\* before the last four the call consumed; and these four are CR LF CR LF.
C20_WellFramed ==
    \A k \in 1..Len(results) :
        results[k].ret = "Ok" =>
            LET r == results[k]
                h == r.rec.header
            IN  /\ BeginsWith(r.rec.version, Prefix7)
                /\ \A w \in WhiteChars : ~EndsWith(r.rec.version, w)
                /\ LowerContentLength \in DOMAIN h
                /\ IsDecimal(h[LowerContentLength])
                /\ Len(r.rec.content) = DecimalValue(h[LowerContentLength])
                /\ r.to - r.from >= Len(r.rec.version) + 1 + Len(r.rec.content) + 4
                /\ SubSeq(data, r.to - 3, r.to) = <<13, 10, 13, 10>>
                /\ r.rec.content = SubSeq(data, r.to - 3 - Len(r.rec.content), r.to - 4)

\* C20 witness: a record whose version line ends with a space and a tab
\* was returned, the version without them, and after it a record with no
\* content.
C20_Witness ==
    /\ Len(results) >= 2
    /\ results[1].ret = "Ok"
    /\ results[2].ret = "Ok"
    /\ frags[1].ver = V_TRAIL
    /\ results[1].rec.version = <<87, 65, 82, 67, 47, 49, 46, 48>>
    /\ results[1].rec.content = B_AB
    /\ results[2].rec.content = <<>>

===========================================================================
